---- MODULE Spec2Model ----
(***************************************************************************)
(* Self-healing element resolution engine (ElementLocator) of the          *)
(* osgt-playwright-automation framework, modelled as a state machine.      *)
(*                                                                         *)
(* One call of the resolver is in progress at a time (the browser session  *)
(* serialises work).  Every await of the source is one step of the model;  *)
(* the page (which selectors currently match a visible element) belongs to *)
(* the environment and may change between two steps.                       *)
(***************************************************************************)
EXTENDS Integers, Sequences, FiniteSets, TLC

VARIABLES
    pc,                \* position of the call in progress
    op,                \* the public operation that was called
    strategies,        \* argument: the SelectorStrategies object
    timeout,           \* argument: the timeout budget (ms)
    state,             \* argument of waitForState ("" for locate)
    validAttempts,     \* locate: const validAttempts (sequence of strategy kinds)
    timeoutPerAttempt, \* locate: const timeoutPerAttempt
    index,             \* locate: loop index into validAttempts (0-based)
    locator,           \* the Locator held by the call (0: none, else its strategy kind)
    result,            \* what the call returned or threw
    log,               \* entries handed to the logger by the call in progress
    sessionCalls,      \* waits handed to the browser session by the call in progress
    visible,           \* the page: strategy kinds whose selector matches a visible element
    pageChanged,       \* history: the page changed since the call began
    startedVisible,    \* history: the call waits for 'hidden' and began while every
                       \* populated selector matched a visible element
    counts,            \* locateAll: what the session answered to each count()
    appearTimeout,     \* arguments of waitForAppearAndDisappear (0 for the
    disappearTimeout,  \* other operations)
    inventoryUrl,      \* login page: page.url() contains '/inventory.html'
    errorText,         \* login page: text of the visible error message ("none": not shown)
    elapsed,           \* login: Date.now() - startTime (ms)
    stackDepth,        \* getPageTitle: frames of the call on the stack
    dbClients,         \* DatabaseUtils: this.mssqlPool and this.pgClient
    dbPending,         \* DatabaseUtils: close()/end() promises not yet settled
    config,            \* ConfigManager: this.config
    meta,              \* Logger: the metadata object the caller holds for its call
    sink               \* Logger: what the winston logger was handed by the call

\* the arguments of waitForAppearAndDisappear
compositeVars == <<appearTimeout, disappearTimeout>>

\* the login page and the clock of SauceDemoLoginPage.login
loginVars == <<inventoryUrl, errorText, elapsed>>

\* the page title call, the database clients, the stored configuration and
\* the logger
utilVars == <<stackDepth, dbClients, dbPending, config, meta, sink>>

vars == <<pc, op, strategies, timeout, state, validAttempts, timeoutPerAttempt,
          index, locator, result, log, sessionCalls, visible, pageChanged,
          startedVisible, counts, appearTimeout, disappearTimeout,
          inventoryUrl, errorText, elapsed,
          stackDepth, dbClients, dbPending, config, meta, sink>>

----------------------------------------------------------------------------
(* Bounds of the model *)

MaxTimeout == 3

\* budgets (ms) a caller passes
Timeouts == 0..MaxTimeout

\* the two clients getConnectionStatus reports on beside DynamoDB
Databases == {"mssql", "postgresql"}

\* private config: TestConfig | null = null
NoConfig == [kind |-> "null"]

\* a metadata argument left out: meta?: any
Undefined == [t |-> "undefined", v |-> ""]

\* the winston logger before any call
NoCall == [level |-> "none", meta |-> Undefined]

----------------------------------------------------------------------------
(* The strategy set *)

\* the six strategy kinds, numbered as the attempts array of locate lists them
Kinds == 1..6

\* name: of each attempt
AttemptNames == <<"data-testid", "id", "css", "role", "text", "xpath">>

\* a field of SelectorStrategies is a string; page objects write '' for a
\* strategy they do not use
FieldValues == {"", "sel"}

StrategySets == [Kinds -> FieldValues]

\* condition: () => !!strategies.<field>
Truthy(v) == v # ""

AttemptsIdFirst == <<2, 1, 3, 4, 5, 6>>

\* const attempts = [...]: the order in which the kinds are listed
Attempts == <<1, 2, 3, 4, 5, 6>>

ValidAttemptsUnfiltered(s) == Attempts

\* attempts.filter(attempt => attempt.condition())
ValidAttempts(s) == SelectSeq(Attempts, LAMBDA k : Truthy(s[k]))

\* Infinity or NaN: what a division by zero gives in JavaScript
NonFinite == -1

TimeoutPerAttemptCeil(t, n) ==
    IF n = 0 THEN NonFinite ELSE (t + n - 1) \div n

TimeoutPerAttemptWhole(t, n) ==
    IF n = 0 THEN NonFinite ELSE t

\* every attempt given twice its share
TimeoutPerAttemptDoubled(t, n) == IF n = 0 THEN NonFinite ELSE 2 * (t \div n)

TimeoutPerAttemptUnbounded(t, n) == NonFinite

\* Math.floor(timeout / validAttempts.length)
TimeoutPerAttempt(t, n) ==
    IF n = 0 THEN NonFinite ELSE t \div n

----------------------------------------------------------------------------
(* Results and log entries *)

NoResult == [kind |-> "none"]

Returned(k) == [kind |-> "locator", strategy |-> AttemptNames[k]]

\* new ElementNotFoundError(errorMessage, { strategies, timeout })
\* a value returned by exists (a boolean) or getCount (a number)
Value(v) == [kind |-> "value", value |-> v]

\* a not-found error that lost its error code
ElementNotFoundErrorUncoded(s, t) ==
    [kind |-> "error", name |-> "ElementNotFoundError", code |-> "",
     details |-> [strategies |-> s, timeout |-> t]]

ElementNotFoundError(s, t) ==
    [kind |-> "error", name |-> "ElementNotFoundError", code |-> "ELEMENT_NOT_FOUND",
     details |-> [strategies |-> s, timeout |-> t]]

LogEntry(level, msg, strategy, n, total) ==
    [level |-> level, msg |-> msg, strategy |-> strategy,
     attemptNumber |-> n, attemptCount |-> total]

FoundLogZeroBased(i, k) ==
    IF i > 0
    THEN LogEntry("warn", "Element found using fallback strategy", AttemptNames[k], i, 0)
    ELSE LogEntry("debug", "Element found using primary strategy", AttemptNames[k], 0, 0)

\* the entry written when the attempt at loop index i succeeded
FoundLog(i, k) ==
    IF i > 0
    THEN LogEntry("warn", "Element found using fallback strategy", AttemptNames[k], i + 1, 0)
    ELSE LogEntry("debug", "Element found using primary strategy", AttemptNames[k], 0, 0)

\* the catch block of the loop: log at debug level, continue with the next entry
FailedLog(i, k, n) == LogEntry("debug", "Strategy failed", AttemptNames[k], i + 1, n)

NextIndexSame(i) == i

\* continue: the for loop moves to the next entry of validAttempts
NextIndex(i) == i + 1

\* a wait handed to the session: by which method, which wait, on the locator
\* of which kind (0: the page itself), with which timeout
SessionCall(by, call, k, t) == [by |-> by, call |-> call, strategy |-> k, timeout |-> t]

\* the states waitForState accepts
WaitStates == {"visible", "hidden", "enabled", "disabled", "stable"}

\* a settle delay that follows the caller's timeout
SettleDelayFromTimeout == timeout

\* page.waitForTimeout(1000) of the 'stable' case
SettleDelay == 1000

\* the switch of waitForState: the wait handed to the session for each state
StateWait(st) ==
    CASE st = "visible"  -> "toBeVisible"
      [] st = "hidden"   -> "toBeHidden"
      [] st = "enabled"  -> "toBeEnabled"
      [] st = "disabled" -> "toBeDisabled"
      [] st = "stable"   -> "waitFor:attached"

\* the state wait's failure dressed as the resolver's own not-found error
SessionErrorAsNotFound(call, t) ==
    [kind |-> "error", name |-> "ElementNotFoundError", code |-> "ELEMENT_NOT_FOUND",
     details |-> [call |-> call, timeout |-> t]]

\* what a failed expect(...) or locator.waitFor(...) of the session throws:
\* an error of the browser library, none of the framework's CustomError classes
SessionError(call, t) ==
    [kind |-> "error", name |-> "SessionTimeout", code |-> "",
     details |-> [call |-> call, timeout |-> t]]

MaxMatches == 2

\* locator.count() threw (an empty or malformed selector)
CountThrows == -1

\* what count() can answer for candidate k of the set s on the page vis: at
\* least one match when a visible element matches a populated selector,
\* otherwise any number of matches (hidden ones count too) or an exception
CountAnswers(s, k, vis) ==
    IF Truthy(s[k]) /\ k \in vis THEN 1..MaxMatches
    ELSE {CountThrows} \cup (0..MaxMatches)

\* handles numbered from 1 instead of 0
NthHandlesFromOne(k, c) == [i \in 1..c |-> [strategy |-> AttemptNames[k], nth |-> i]]

\* a loop that starts at i = 1 and so leaves the first match out
NthHandlesSkippingFirst(k, c) ==
    [i \in 1..(c - 1) |-> [strategy |-> AttemptNames[k], nth |-> i]]

\* elements.push(locator.nth(i)) for i = 0 .. count - 1
NthHandles(k, c) == [i \in 1..c |-> [strategy |-> AttemptNames[k], nth |-> i - 1]]

\* the array locateAll returns
Elements(handles) == [kind |-> "elements", elements |-> handles]

\* getCount reporting only whether something matched
GetCountResultCapped(r) ==
    IF r.kind = "error" THEN Value(0)
    ELSE Value(IF Len(r.elements) > 0 THEN 1 ELSE 0)

\* getCount: try { return (await locateAll(...)).length } catch { return 0 }
GetCountResult(r) ==
    IF r.kind = "error" THEN Value(0) ELSE Value(Len(r.elements))

\* the timeout getCount passes to locateAll
GetCountTimeout == 5000

\* the timeout of locateAll when the caller passes none
LocateAllTimeout == 30000

\* what the operation o makes of the outcome r of its locateAll call
AfterLocateAll(o, r) == IF o = "getCount" THEN GetCountResult(r) ELSE r

\* exists without its catch: the error of locate reaches the caller
ExistsResultUncaught(r) == IF r.kind = "error" THEN r ELSE Value(TRUE)

\* exists: try { await locate(...); return true } catch { return false }
ExistsResult(r) == Value(r.kind # "error")

\* what the operation o makes of the outcome r of its locate call: locate hands
\* it to the caller, exists converts it, the others go on with the locator
\* and let an error through
AfterLocate(o, r) ==
    CASE o = "locate" -> r
      [] o = "exists" -> ExistsResult(r)
      [] OTHER        -> IF r.kind = "error" THEN r ELSE NoResult

----------------------------------------------------------------------------
(* Initial state: an ElementLocator was constructed, no call made yet *)

Init ==
    /\ pc = "idle"
    /\ op = "none"
    /\ strategies = [k \in Kinds |-> ""]
    /\ timeout = 0
    /\ state = ""
    /\ validAttempts = <<>>
    /\ timeoutPerAttempt = 0
    /\ index = 0
    /\ locator = 0
    /\ result = NoResult
    /\ log = <<>>
    /\ sessionCalls = <<>>
    /\ visible \in SUBSET Kinds
    /\ pageChanged = FALSE
    /\ startedVisible = FALSE
    /\ counts = <<>>
    /\ appearTimeout = 0
    /\ disappearTimeout = 0
    /\ inventoryUrl = FALSE
    /\ errorText = "none"
    /\ elapsed = 0
    /\ stackDepth = 0
    /\ dbClients = [db \in Databases |-> "undefined"]
    /\ dbPending = {}
    /\ config = NoConfig
    /\ meta = Undefined
    /\ sink = NoCall

InCall == pc \notin {"idle", "done"}

\* entry of locate: build attempts, filter them, compute the share
BeginLocate(s, t) ==
    /\ strategies' = s
    /\ timeout' = t
    /\ validAttempts' = ValidAttempts(s)
    /\ timeoutPerAttempt' = TimeoutPerAttempt(t, Len(ValidAttempts(s)))
    /\ index' = 0
    /\ locator' = 0
    /\ result' = NoResult
    /\ log' = <<>>
    /\ sessionCalls' = <<>>
    /\ pageChanged' = FALSE
    /\ pc' = "locate"

\* a page object calls locate(strategies, timeout)
Locate ==
    /\ pc = "idle"
    /\ \E s \in StrategySets, t \in Timeouts :
          BeginLocate(s, t)
    /\ op' = "locate"
    /\ state' = ""
    /\ startedVisible' = FALSE
    /\ UNCHANGED <<visible, counts, compositeVars, loginVars, utilVars>>

PcAfterLocateSwallowed(o, found) ==
    IF o = "waitForState" THEN "state" ELSE "done"

\* where control goes when locate returns (found) or throws
PcAfterLocate(o, found) ==
    IF o \in {"waitForState", "waitForAppearAndDisappear"} /\ found
    THEN "state"
    ELSE IF o = "clickElement" /\ found THEN "click" ELSE "done"

\* the composite going on to its second wait whatever the first one did
PcAfterWaitIgnoringFailure(o, st, ok) ==
    IF o = "waitForAppearAndDisappear" /\ st = "visible" THEN "disappear" ELSE "done"

\* where control goes when waitForState returns (ok) or throws: the composite
\* goes on to its second wait only after the first one returned
PcAfterWait(o, st, ok) ==
    IF o = "waitForAppearAndDisappear" /\ st = "visible" /\ ok
    THEN "disappear" ELSE "done"

\* waitForAppearAndDisappear returns nothing
Void == [kind |-> "void"]

\* what the operation o has in hand when its wait for st returned r
AfterWait(o, st, r) ==
    IF o = "waitForAppearAndDisappear"
    THEN IF st = "visible" THEN NoResult ELSE Void
    ELSE r

\* a resolver that drops from the set the selector that just failed
StrategiesPruned(s, k, found) == IF found THEN s ELSE [s EXCEPT ![k] = ""]

\* the strategy set after the attempt on candidate k: the closures of the
\* attempts array and the log calls only read it
StrategiesAfterAttempt(s, k, found) == s

\* one iteration of the for loop of locate
TryCandidate ==
    /\ pc = "locate"
    /\ index < Len(validAttempts)
    /\ LET k == validAttempts[index + 1]
           trying == LogEntry("debug", "Trying strategy", AttemptNames[k], 0, 0)
       IN  /\ sessionCalls' = Append(sessionCalls,
                                     SessionCall("locate", "toBeVisible", k, timeoutPerAttempt))
           /\ strategies' = StrategiesAfterAttempt(strategies, k, k \in visible)
           /\ IF k \in visible
              THEN /\ log' = log \o <<trying, FoundLog(index, k)>>
                   /\ locator' = k
                   /\ pc' = PcAfterLocate(op, TRUE)
                   /\ result' = AfterLocate(op, Returned(k))
                   /\ UNCHANGED index
              ELSE /\ log' = log \o <<trying, FailedLog(index, k, Len(validAttempts))>>
                   /\ index' = NextIndex(index)
                   /\ UNCHANGED <<locator, pc, result>>
    /\ UNCHANGED <<op, timeout, state, validAttempts, timeoutPerAttempt,
                   visible, pageChanged, startedVisible, counts, compositeVars, loginVars, utilVars>>

\* a locate whose catch gives up at the first candidate that failed
ExhaustedAtFirstFailure ==
    /\ pc = "locate"
    /\ index >= 1 \/ validAttempts = <<>>
    /\ log' = Append(log, LogEntry("error", "Element not found using any strategy",
                                   "", 0, Len(validAttempts)))
    /\ result' = AfterLocate(op, ElementNotFoundError(strategies, timeout))
    /\ pc' = PcAfterLocate(op, FALSE)
    /\ UNCHANGED <<op, strategies, timeout, state, validAttempts, timeoutPerAttempt,
                   index, locator, sessionCalls, visible, pageChanged,
                   startedVisible, counts, compositeVars, loginVars, utilVars>>

\* the loop of locate ended without a return
Exhausted ==
    /\ pc = "locate"
    /\ index >= Len(validAttempts)
    /\ log' = Append(log, LogEntry("error", "Element not found using any strategy",
                                   "", 0, Len(validAttempts)))
    /\ result' = AfterLocate(op, ElementNotFoundError(strategies, timeout))
    /\ pc' = PcAfterLocate(op, FALSE)
    /\ UNCHANGED <<op, strategies, timeout, state, validAttempts, timeoutPerAttempt,
                   index, locator, sessionCalls, visible, pageChanged,
                   startedVisible, counts, compositeVars, loginVars, utilVars>>

\* a caller asks exists(strategies, timeout): locate, its outcome made a boolean
Exists ==
    /\ pc = "idle"
    /\ \E s \in StrategySets, t \in Timeouts : BeginLocate(s, t)
    /\ op' = "exists"
    /\ state' = ""
    /\ startedVisible' = FALSE
    /\ UNCHANGED <<visible, counts, compositeVars, loginVars, utilVars>>

\* entry of locateAll: the attempts array holds all six candidates, populated
\* or not; the timeout parameter is not used by the body
BeginLocateAll(s, t) ==
    /\ strategies' = s
    /\ timeout' = t
    /\ validAttempts' = Attempts
    /\ timeoutPerAttempt' = 0
    /\ index' = 0
    /\ locator' = 0
    /\ result' = NoResult
    /\ log' = <<>>
    /\ sessionCalls' = <<>>
    /\ counts' = <<>>
    /\ pageChanged' = FALSE
    /\ state' = ""
    /\ startedVisible' = FALSE
    /\ pc' = "locateAll"
    /\ UNCHANGED <<visible, compositeVars, loginVars, utilVars>>

\* a caller asks locateAll(strategies)
LocateAll ==
    /\ pc = "idle"
    /\ \E s \in StrategySets : BeginLocateAll(s, LocateAllTimeout)
    /\ op' = "locateAll"

\* a caller asks getCount(strategies)
GetCount ==
    /\ pc = "idle"
    /\ \E s \in StrategySets : BeginLocateAll(s, GetCountTimeout)
    /\ op' = "getCount"

\* one iteration of the for loop of locateAll
CountCandidate ==
    /\ pc = "locateAll"
    /\ index < Len(validAttempts)
    /\ LET k == validAttempts[index + 1]
       IN  /\ sessionCalls' = Append(sessionCalls,
                                     SessionCall("locateAll", "count", k, NonFinite))
           /\ \E c \in CountAnswers(strategies, k, visible) :
                 /\ counts' = Append(counts, c)
                 /\ IF c > 0
                    THEN /\ log' = Append(log, LogEntry("debug", "Found elements",
                                                        AttemptNames[k], 0, c))
                         /\ locator' = k
                         /\ result' = AfterLocateAll(op, Elements(NthHandles(k, c)))
                         /\ pc' = "done"
                         /\ UNCHANGED index
                    ELSE /\ index' = NextIndex(index)
                         /\ UNCHANGED <<locator, result, log, pc>>
    /\ UNCHANGED <<op, strategies, timeout, state, validAttempts, timeoutPerAttempt,
                   visible, pageChanged, startedVisible, compositeVars, loginVars, utilVars>>

\* the loop of locateAll ended without a return
NoneFound ==
    /\ pc = "locateAll"
    /\ index >= Len(validAttempts)
    /\ log' = Append(log, LogEntry("warn", "No elements found with any strategy", "", 0, 0))
    /\ result' = AfterLocateAll(op, Elements(<<>>))
    /\ pc' = "done"
    /\ UNCHANGED <<op, strategies, timeout, state, validAttempts, timeoutPerAttempt,
                   index, locator, sessionCalls, visible, pageChanged,
                   startedVisible, counts, compositeVars, loginVars, utilVars>>

\* the environment: an element appears or disappears for one selector, before
\* a call or while a call waits on the session
PageChange ==
    /\ pc # "done"
    /\ \E k \in Kinds :
          visible' = IF k \in visible THEN visible \ {k} ELSE visible \cup {k}
    /\ pageChanged' = (pageChanged \/ InCall)
    /\ UNCHANGED <<pc, op, strategies, timeout, state, validAttempts, timeoutPerAttempt,
                   index, locator, result, log, sessionCalls,
                   startedVisible, counts, compositeVars, loginVars, utilVars>>

\* a page object calls waitForState(strategies, state, timeout): it starts
\* with locate(strategies, timeout)
WaitForState ==
    /\ pc = "idle"
    /\ \E s \in StrategySets, t \in Timeouts :
          BeginLocate(s, t)
    /\ \E st \in WaitStates :
          /\ state' = st
          /\ startedVisible' = (st = "hidden" /\ \A k \in Kinds :
                                    Truthy(strategies'[k]) => k \in visible)
    /\ op' = "waitForState"
    /\ UNCHANGED <<visible, counts, compositeVars, loginVars, utilVars>>

\* the outcomes the session can give to a state wait on the page as it is:
\* visibility is the page's; enabledness and attachment of an element are
\* not part of the page model (a visible element is attached)
StateOutcomes(st, k) ==
    CASE st = "visible" -> {k \in visible}
      [] st = "hidden"  -> {k \notin visible}
      [] st = "stable"  -> IF k \in visible THEN {TRUE} ELSE BOOLEAN
      [] OTHER          -> BOOLEAN

\* waitForState after locate returned: the switch on state
AssertState ==
    /\ pc = "state"
    /\ LET waiting == LogEntry("debug", "Waiting for element state", state, 0, 0)
           reached == LogEntry("debug", "Element reached desired state", state, 0, 0)
       IN  /\ sessionCalls' = Append(sessionCalls,
                                     SessionCall("waitForState", StateWait(state), locator, timeout))
           /\ \E ok \in StateOutcomes(state, locator) :
                 IF ~ok
                 THEN /\ log' = Append(log, waiting)
                      /\ result' = SessionError(StateWait(state), timeout)
                      /\ pc' = PcAfterWait(op, state, FALSE)
                 ELSE IF state = "stable"
                 THEN /\ log' = Append(log, waiting)
                      /\ pc' = "settle"
                      /\ UNCHANGED result
                 ELSE /\ log' = log \o <<waiting, reached>>
                                \o IF op = "waitForAppearAndDisappear" /\ state = "hidden"
                                   THEN <<LogEntry("debug",
                                            "Element appeared and disappeared successfully",
                                            "", 0, 0)>>
                                   ELSE <<>>
                      /\ result' = AfterWait(op, state, Returned(locator))
                      /\ pc' = PcAfterWait(op, state, TRUE)
    /\ UNCHANGED <<op, strategies, timeout, state, validAttempts, timeoutPerAttempt,
                   index, locator, visible, pageChanged,
                   startedVisible, counts, compositeVars, loginVars, utilVars>>

\* the pairs <<appearTimeout, disappearTimeout>> the composite is called with
CompositeTimeouts == {<<1, MaxTimeout>>, <<MaxTimeout, 1>>}

\* a caller asks waitForAppearAndDisappear(strategies, appearTimeout,
\* disappearTimeout): a log line, then waitForState(strategies, 'visible',
\* appearTimeout), which starts with locate
WaitForAppearAndDisappear ==
    /\ pc = "idle"
    /\ \E s \in StrategySets, t \in CompositeTimeouts :
          /\ strategies' = s
          /\ appearTimeout' = t[1]
          /\ disappearTimeout' = t[2]
          /\ timeout' = t[1]
          /\ validAttempts' = ValidAttempts(s)
          /\ timeoutPerAttempt' = TimeoutPerAttempt(t[1], Len(ValidAttempts(s)))
    /\ op' = "waitForAppearAndDisappear"
    /\ state' = "visible"
    /\ index' = 0
    /\ locator' = 0
    /\ result' = NoResult
    /\ log' = <<LogEntry("debug", "Waiting for element to appear and then disappear",
                         "", 0, 0)>>
    /\ sessionCalls' = <<>>
    /\ pageChanged' = FALSE
    /\ startedVisible' = FALSE
    /\ pc' = "locate"
    /\ UNCHANGED <<visible, counts, loginVars, utilVars>>

\* the second call of the composite: waitForState(strategies, 'hidden',
\* disappearTimeout), which starts with a new locate
Disappear ==
    /\ pc = "disappear"
    /\ state' = "hidden"
    /\ timeout' = disappearTimeout
    /\ validAttempts' = ValidAttempts(strategies)
    /\ timeoutPerAttempt' = TimeoutPerAttempt(disappearTimeout, Len(ValidAttempts(strategies)))
    /\ index' = 0
    /\ locator' = 0
    /\ startedVisible' = \A k \in Kinds : Truthy(strategies[k]) => k \in visible
    /\ pc' = "locate"
    /\ UNCHANGED <<op, strategies, result, log, sessionCalls, visible, pageChanged,
                   counts, compositeVars, loginVars, utilVars>>

\* a page object calls clickElement(strategies, {timeout}): it starts with
\* locate(strategies, options?.timeout)
ClickElement ==
    /\ pc = "idle"
    /\ \E s \in StrategySets, t \in Timeouts : BeginLocate(s, t)
    /\ op' = "clickElement"
    /\ state' = ""
    /\ startedVisible' = FALSE
    /\ UNCHANGED <<visible, counts, compositeVars, loginVars, utilVars>>

\* clickElement after locate returned: await element.click(clickOptions), the
\* last statement of the function; the click may fail (the element is covered,
\* detached or disabled) and clickOptions carries no timeout
Click ==
    /\ pc = "click"
    /\ sessionCalls' = Append(sessionCalls,
                              SessionCall("clickElement", "click", locator, NonFinite))
    /\ \E ok \in BOOLEAN :
          result' = IF ok THEN Void ELSE SessionError("click", NonFinite)
    /\ pc' = "done"
    /\ UNCHANGED <<op, strategies, timeout, state, validAttempts, timeoutPerAttempt,
                   index, locator, log, visible, pageChanged,
                   startedVisible, counts, compositeVars, loginVars, utilVars>>

\* case 'stable': the fixed delay after the element is attached
Settle ==
    /\ pc = "settle"
    /\ sessionCalls' = Append(sessionCalls, SessionCall("waitForState", "waitForTimeout", 0, SettleDelay))
    /\ log' = Append(log, LogEntry("debug", "Element reached desired state", state, 0, 0))
    /\ result' = Returned(locator)
    /\ pc' = "done"
    /\ UNCHANGED <<op, strategies, timeout, state, validAttempts, timeoutPerAttempt,
                   index, locator, visible, pageChanged,
                   startedVisible, counts, compositeVars, loginVars, utilVars>>

----------------------------------------------------------------------------
(* SauceDemoLoginPage.login. The calls it makes on the page object          *)
(* (waitForVisible, typeText, clickElement, isElementVisible,              *)
(* getElementText, captureScreenshot) are one step each, with the outcome  *)
(* the page allows; their debug log lines are left out.                    *)

\* what the login model leaves alone
resolverVars == <<strategies, timeout, state, validAttempts, timeoutPerAttempt, index,
                  locator, visible, pageChanged, startedVisible, counts, compositeVars,
                  utilVars>>

LoginResultTimeout == 10000
PollInterval == 500
VisibleCheckTimeout == 5000
LocateDefaultTimeout == 30000

\* the populated fields of selectors.errorMessage: dataTestId, css, role, xpath
ErrorCandidates == 4

\* the time locate takes on the error message with budget t: one share when the
\* message is shown (the data-testid candidate fails, the css one matches),
\* all shares when it is not
LocateTime(t, shown) ==
    IF shown THEN TimeoutPerAttempt(t, ErrorCandidates)
    ELSE ErrorCandidates * TimeoutPerAttempt(t, ErrorCandidates)

AuthenticationFailedError(reason, cause) ==
    [kind |-> "error", name |-> "AuthenticationFailedError",
     code |-> "AUTHENTICATION_FAILED", details |-> [reason |-> reason, error |-> cause]]

\* an error thrown by one of the page calls that failed
PageCallError(call) ==
    [kind |-> "error", name |-> "Error", code |-> "",
     details |-> [reason |-> call, error |-> ""]]

LoginSucceeded == Value([success |-> TRUE, redirectUrl |-> "/inventory.html"])

LoginRejected(msg) == Value([success |-> FALSE, errorMessage |-> msg])

\* the awaits of the try block before waitForLoginResult
LoginPrelude == <<"waitForPageToLoad", "fillLoginForm", "submitLogin">>

\* a test calls login(credentials)
Login ==
    /\ pc = "idle"
    /\ op' = "login"
    /\ pc' = LoginPrelude[1]
    /\ log' = <<LogEntry("info", "Attempting SauceDemo login", "", 0, 0)>>
    /\ result' = NoResult
    /\ sessionCalls' = <<>>
    /\ elapsed' = 0
    /\ UNCHANGED <<resolverVars, inventoryUrl, errorText>>

\* one await of the prelude returns or throws into the catch block; after
\* submitLogin the clock of waitForLoginResult starts
LoginStep ==
    /\ op = "login"
    /\ \E i \in 1..Len(LoginPrelude) :
          /\ pc = LoginPrelude[i]
          /\ \E ok \in BOOLEAN :
                IF ok
                THEN /\ pc' = IF i < Len(LoginPrelude) THEN LoginPrelude[i + 1] ELSE "poll"
                     /\ UNCHANGED result
                ELSE /\ pc' = "catch"
                     /\ result' = PageCallError(LoginPrelude[i])
    /\ elapsed' = 0
    /\ sessionCalls' = <<>>
    /\ UNCHANGED <<op, log, resolverVars, inventoryUrl, errorText>>

\* head of the while loop: the time test, then page.url()
PollUrl ==
    /\ op = "login" /\ pc = "poll"
    /\ IF elapsed < LoginResultTimeout
       THEN /\ sessionCalls' = <<SessionCall("login", "url", 0, NonFinite)>>
            /\ IF inventoryUrl
               THEN /\ log' = Append(log, LogEntry("info", "SauceDemo login successful",
                                                   "", 0, 0))
                    /\ result' = LoginSucceeded
                    /\ pc' = "done"
               ELSE /\ pc' = "isElementVisible"
                    /\ UNCHANGED <<log, result>>
       ELSE /\ result' = AuthenticationFailedError("SauceDemo login result timeout", "")
            /\ pc' = "catch"
            /\ UNCHANGED <<log, sessionCalls>>
    /\ UNCHANGED <<op, resolverVars, loginVars>>

\* getErrorMessage, first await: isElementVisible(selectors.errorMessage)
CheckErrorVisible ==
    /\ op = "login" /\ pc = "isElementVisible"
    /\ sessionCalls' = Append(sessionCalls,
                              SessionCall("login", "isElementVisible", 0, VisibleCheckTimeout))
    /\ elapsed' = elapsed + LocateTime(VisibleCheckTimeout, errorText # "none")
    /\ pc' = IF errorText # "none" THEN "getElementText" ELSE "waitForTimeout"
    /\ UNCHANGED <<op, result, log, resolverVars, inventoryUrl, errorText>>

\* getErrorMessage, second await: getElementText, then trim() || null; a
\* message that is gone makes locate throw, which getErrorMessage catches
ReadErrorText ==
    /\ op = "login" /\ pc = "getElementText"
    /\ sessionCalls' = Append(sessionCalls,
                              SessionCall("login", "getElementText", 0, LocateDefaultTimeout))
    /\ elapsed' = elapsed + LocateTime(LocateDefaultTimeout, errorText # "none")
    /\ IF errorText \in {"none", ""}
       THEN /\ pc' = "waitForTimeout"
            /\ UNCHANGED <<result, log>>
       ELSE /\ log' = Append(log, LogEntry("warn", "SauceDemo login failed with error",
                                           errorText, 0, 0))
            /\ result' = LoginRejected(errorText)
            /\ pc' = "done"
    /\ UNCHANGED <<op, resolverVars, inventoryUrl, errorText>>

\* end of a polling round: await page.waitForTimeout(500)
PollSleep ==
    /\ op = "login" /\ pc = "waitForTimeout"
    /\ sessionCalls' = Append(sessionCalls,
                              SessionCall("login", "waitForTimeout", 0, PollInterval))
    /\ elapsed' = elapsed + PollInterval
    /\ pc' = "poll"
    /\ UNCHANGED <<op, result, log, resolverVars, inventoryUrl, errorText>>

\* the catch block: log the caught error, await captureScreenshot (which has
\* no catch of its own and may throw), then throw AuthenticationFailedError
LoginCatch ==
    /\ op = "login" /\ pc = "catch"
    /\ log' = Append(log, LogEntry("error", "SauceDemo login failed",
                                   result.details.reason, 0, 0))
    /\ sessionCalls' = Append(sessionCalls,
                              SessionCall("login", "captureScreenshot", 0, NonFinite))
    /\ \E ok \in BOOLEAN :
          result' = IF ok
                    THEN AuthenticationFailedError("SauceDemo login failed",
                                                   result.details.reason)
                    ELSE PageCallError("captureScreenshot")
    /\ pc' = "done"
    /\ UNCHANGED <<op, resolverVars, loginVars>>

\* the environment of login: the site redirects, or shows, blanks or removes
\* its error message
LoginPageChange ==
    /\ pc # "done"
    /\ \/ /\ inventoryUrl' = ~inventoryUrl
          /\ UNCHANGED errorText
       \/ /\ errorText' \in {"none", "", "Epic sadface: Sorry, this user has been locked out."}
                            \ {errorText}
          /\ UNCHANGED inventoryUrl
    /\ UNCHANGED <<pc, op, result, log, sessionCalls, elapsed, resolverVars>>

----------------------------------------------------------------------------
\* the caller takes the value or the error; the frame of the call is gone
Return ==
    /\ pc = "done"
    /\ pc' = "idle"
    /\ op' = "none"
    /\ strategies' = [k \in Kinds |-> ""]
    /\ timeout' = 0
    /\ state' = ""
    /\ validAttempts' = <<>>
    /\ timeoutPerAttempt' = 0
    /\ index' = 0
    /\ locator' = 0
    /\ result' = NoResult
    /\ log' = <<>>
    /\ sessionCalls' = <<>>
    /\ pageChanged' = FALSE
    /\ startedVisible' = FALSE
    /\ counts' = <<>>
    /\ appearTimeout' = 0
    /\ disappearTimeout' = 0
    /\ elapsed' = 0
    /\ meta' = Undefined
    /\ sink' = NoCall
    /\ UNCHANGED <<visible, inventoryUrl, errorText, stackDepth, dbClients, dbPending,
                   config>>

Next ==
    \/ Locate
    \/ TryCandidate
    \/ Exhausted
    \/ PageChange
    \/ Return

Spec == Init /\ [][Next]_vars

\* every wait on the session returns or times out, and the continuation of
\* the awaiting call is then run
FairSpec == Spec /\ WF_vars(TryCandidate) /\ WF_vars(Exhausted)

\* the resolver used through waitForState
NextWait ==
    \/ WaitForState
    \/ TryCandidate
    \/ Exhausted
    \/ AssertState
    \/ Settle
    \/ PageChange
    \/ Return

NextExists == Exists \/ TryCandidate \/ Exhausted \/ PageChange \/ Return

SpecExists == Init /\ [][NextExists]_vars

NextAll == LocateAll \/ CountCandidate \/ NoneFound \/ PageChange \/ Return

SpecAll == Init /\ [][NextAll]_vars

NextCount == GetCount \/ CountCandidate \/ NoneFound \/ PageChange \/ Return

SpecCount == Init /\ [][NextCount]_vars

NextAppear == WaitForAppearAndDisappear \/ TryCandidate \/ Exhausted \/ AssertState
                 \/ Disappear \/ PageChange \/ Return

SpecAppear == Init /\ [][NextAppear]_vars

NextClick == ClickElement \/ TryCandidate \/ Exhausted \/ Click \/ PageChange \/ Return

SpecClick == Init /\ [][NextClick]_vars

\* the five operations of the resolver, one call after the other on one page
NextResolver == Locate \/ Exists \/ WaitForState \/ LocateAll \/ GetCount
                   \/ TryCandidate \/ Exhausted \/ AssertState \/ Settle
                   \/ CountCandidate \/ NoneFound \/ Return

SpecResolver == Init /\ [][NextResolver]_vars

NextLogin == Login \/ LoginStep \/ PollUrl \/ CheckErrorVisible \/ ReadErrorText
                \/ PollSleep \/ LoginCatch \/ LoginPageChange \/ Return

SpecLogin == Init /\ [][NextLogin]_vars

SpecWait == Init /\ [][NextWait]_vars

----------------------------------------------------------------------------
(* getPageTitle of the page objects *)

\* what the calls outside the resolver and the login leave alone
elementVars == <<strategies, timeout, state, validAttempts, timeoutPerAttempt, index,
                 locator, visible, pageChanged, startedVisible, counts, compositeVars,
                 loginVars, log, sessionCalls>>

\* frames the engine's call stack holds before it raises RangeError
MaxStack == 3

\* what page.title() answers
Titles == {"Swag Labs", ""}

\* RangeError: Maximum call stack size exceeded
StackOverflowError ==
    [kind |-> "error", name |-> "RangeError", code |-> "",
     details |-> [reason |-> "Maximum call stack size exceeded", error |-> ""]]

\* BasePage.getPageTitle, entry
BaseGetPageTitle ==
    /\ pc = "idle"
    /\ pc' = "page.title"
    /\ op' = "BasePage.getPageTitle"
    /\ stackDepth' = 1
    /\ UNCHANGED <<result, elementVars, dbClients, dbPending, config, meta, sink>>

\* return await this.page.title()
PageTitle ==
    /\ pc = "page.title"
    /\ \/ \E t \in Titles : result' = Value(t)
       \/ result' = PageCallError("title")
    /\ pc' = "done"
    /\ stackDepth' = 0
    /\ UNCHANGED <<op, elementVars, dbClients, dbPending, config, meta, sink>>

\* SauceDemoLoginPage.getPageTitle, entry
LoginGetPageTitle ==
    /\ pc = "idle"
    /\ pc' = "getPageTitle"
    /\ op' = "SauceDemoLoginPage.getPageTitle"
    /\ stackDepth' = 1
    /\ UNCHANGED <<result, elementVars, dbClients, dbPending, config, meta, sink>>

\* return await this.getPageTitle(): the call is evaluated before the await
SelfCall ==
    /\ pc = "getPageTitle"
    /\ stackDepth < MaxStack
    /\ pc' = "getPageTitle"
    /\ stackDepth' = stackDepth + 1
    /\ UNCHANGED <<op, result, elementVars, dbClients, dbPending, config, meta, sink>>

\* the stack is full: the innermost call throws, every frame's promise rejects
StackOverflow ==
    /\ pc = "getPageTitle"
    /\ stackDepth = MaxStack
    /\ result' = StackOverflowError
    /\ pc' = "done"
    /\ stackDepth' = 0
    /\ UNCHANGED <<op, elementVars, dbClients, dbPending, config, meta, sink>>

NextTitle == BaseGetPageTitle \/ PageTitle \/ LoginGetPageTitle \/ SelfCall
                \/ StackOverflow \/ Return

SpecTitle == Init /\ [][NextTitle]_vars

----------------------------------------------------------------------------
(* DatabaseUtils: connectMSSQL, connectPostgreSQL, disconnect and           *)
(* getConnectionStatus.  A client field is "undefined", or holds a client   *)
(* object that is "created" (constructed, not connected) or "connected".    *)
(* The DynamoDB client is left out.                                         *)

ConnectOps == {"connectMSSQL", "connectPostgreSQL"}

\* the client field a connect method works on
DbOf(o) == IF o = "connectMSSQL" THEN "mssql" ELSE "postgresql"

\* new DatabaseConnectionError('MSSQL' | 'PostgreSQL', { error })
DatabaseConnectionError(db) ==
    [kind |-> "error", name |-> "DatabaseConnectionError",
     code |-> "DATABASE_CONNECTION_FAILED",
     details |-> [reason |-> db, error |-> ""]]

\* the field after `this.mssqlPool = new sql.ConnectionPool(poolConfig)`
ClientBeforeConnect == "created"

\* connectMSSQL / connectPostgreSQL up to the awaited connect(); configured
\* tells whether this.config has the section of the database
ConnectDb(o, configured) ==
    /\ pc = "idle"
    /\ op' = o
    /\ IF dbClients[DbOf(o)] # "undefined"
          THEN /\ result' = Value(dbClients[DbOf(o)])
               /\ pc' = "done"
               /\ UNCHANGED dbClients
          ELSE IF ~configured
                 THEN /\ result' = DatabaseConnectionError(DbOf(o))
                      /\ pc' = "done"
                      /\ UNCHANGED dbClients
                 ELSE /\ dbClients' = [dbClients EXCEPT ![DbOf(o)] = ClientBeforeConnect]
                      /\ pc' = "connect"
                      /\ UNCHANGED result
    /\ UNCHANGED <<elementVars, stackDepth, dbPending, config, meta, sink>>

Connect == \E o \in ConnectOps, configured \in BOOLEAN : ConnectDb(o, configured)

\* await this.mssqlPool.connect() settles; the catch block logs and throws,
\* the field keeps the client object
ConnectSettled ==
    /\ pc = "connect"
    /\ \/ /\ dbClients' = [dbClients EXCEPT ![DbOf(op)] = "connected"]
          /\ result' = Value("connected")
       \/ /\ UNCHANGED dbClients
          /\ result' = DatabaseConnectionError(DbOf(op))
    /\ pc' = "done"
    /\ UNCHANGED <<op, elementVars, stackDepth, dbPending, config, meta, sink>>

\* disconnect up to `await Promise.all(promises)`
Disconnect ==
    /\ pc = "idle"
    /\ op' = "disconnect"
    /\ dbPending' = dbPending \cup {db \in Databases : dbClients[db] # "undefined"}
    /\ pc' = "disconnect"
    /\ UNCHANGED <<result, elementVars, stackDepth, dbClients, config, meta, sink>>

\* a close() / end() promise settles; its then-callback clears the field.
\* A rejection rejects Promise.all at once; the other promise settles later.
CloseSettled ==
    \E db \in dbPending, ok \in BOOLEAN :
        /\ pc # "done"
        /\ dbPending' = dbPending \ {db}
        /\ dbClients' = IF ok THEN [dbClients EXCEPT ![db] = "undefined"] ELSE dbClients
        /\ result' = IF ~ok /\ pc = "disconnect" /\ result.kind # "error"
                        THEN PageCallError("close") ELSE result
        /\ UNCHANGED <<pc, op, elementVars, stackDepth, config, meta, sink>>

\* Promise.all settled: disconnect returns or throws
DisconnectSettled ==
    /\ pc = "disconnect"
    /\ result.kind = "error" \/ dbPending = {}
    /\ result' = IF result.kind = "error" THEN result ELSE Void
    /\ pc' = "done"
    /\ UNCHANGED <<op, elementVars, stackDepth, dbClients, dbPending, config, meta, sink>>

\* { mssql: !!this.mssqlPool, postgresql: !!this.pgClient }
ConnectionStatus == [db \in Databases |-> dbClients[db] # "undefined"]

GetConnectionStatus ==
    /\ pc = "idle"
    /\ op' = "getConnectionStatus"
    /\ result' = Value(ConnectionStatus)
    /\ pc' = "done"
    /\ UNCHANGED <<elementVars, stackDepth, dbClients, dbPending, config, meta, sink>>

NextDatabase == Connect \/ ConnectSettled \/ Disconnect \/ CloseSettled
                   \/ DisconnectSettled \/ GetConnectionStatus \/ Return

SpecDatabase == Init /\ [][NextDatabase]_vars

----------------------------------------------------------------------------
(* ConfigManager: loadConfig, validateConfig and getConfig.  A parsed       *)
(* document is null (an empty file) or an object, of which the model keeps  *)
(* the required fields it defines, its browser and its baseURL.             *)

RequiredFields == {"browser", "baseURL", "apiBaseURL", "timeout", "retries"}

ValidBrowsers == {"chromium", "firefox", "webkit"}

\* the fields a document of the model may lack
OptionalInModel == {"browser", "baseURL", "retries"}

Placeholder == "${BASE_URL}"

\* what yaml.parse returns
Documents ==
    {NoConfig} \cup
    { [kind |-> "object", fields |-> RequiredFields \ m,
       browser |-> IF "browser" \in m THEN "" ELSE b,
       baseURL |-> IF "baseURL" \in m THEN "" ELSE u] :
         m \in SUBSET OptionalInModel,
         b \in {"chromium", "webkit", "safari", ""},
         u \in {"https://www.saucedemo.com", Placeholder} }

\* new ConfigurationError(reason, details)
ConfigurationError(reason) ==
    [kind |-> "error", name |-> "ConfigurationError", code |-> "CONFIGURATION_ERROR",
     details |-> [reason |-> reason, error |-> ""]]

\* substituteEnvironmentVariables: ${BASE_URL} becomes the value of the
\* environment variable when it is set and stays as it is when not
SubstituteEnvironmentVariables(doc, envSet) ==
    IF doc.kind = "object" /\ doc.baseURL = Placeholder /\ envSet
      THEN [doc EXCEPT !.baseURL = "https://env.example"]
      ELSE doc

\* validateConfig: the validation errors it collects
ValidationErrors(doc) ==
    (IF RequiredFields \ doc.fields # {} THEN {"Missing required fields"} ELSE {})
    \cup (IF Truthy(doc.browser) /\ doc.browser \notin ValidBrowsers
            THEN {"Invalid browser"} ELSE {})

\* the try block of loadConfig reaches its return statement
LoadSucceeds(exists, parses, doc) ==
    /\ exists
    /\ parses
    /\ doc.kind = "object"
    /\ ValidationErrors(doc) = {}

\* this.config assigned as soon as the document is parsed
StoredConfigUnvalidated(cur, exists, parses, doc) ==
    IF exists /\ parses THEN doc ELSE cur

\* this.config after loadConfig: assigned after validateConfig returned
StoredConfig(cur, exists, parses, doc) ==
    IF LoadSucceeds(exists, parses, doc) THEN doc ELSE cur

\* loadConfig(environment): synchronous, one step
LoadConfigOn(exists, parses, parsed, envSet) ==
    LET doc == SubstituteEnvironmentVariables(parsed, envSet) IN
    /\ pc = "idle"
    /\ op' = "loadConfig"
    /\ config' = StoredConfig(config, exists, parses, doc)
    /\ result' = IF LoadSucceeds(exists, parses, doc)
                    THEN Value(doc)
                    ELSE ConfigurationError("Failed to load configuration")
    /\ pc' = "done"
    /\ UNCHANGED <<elementVars, stackDepth, dbClients, dbPending, meta, sink>>

LoadConfig ==
    \E exists \in BOOLEAN, parses \in BOOLEAN, parsed \in Documents, envSet \in BOOLEAN :
        LoadConfigOn(exists, parses, parsed, envSet)

\* getConfig()
GetConfig ==
    /\ pc = "idle"
    /\ op' = "getConfig"
    /\ result' = IF config = NoConfig
                    THEN ConfigurationError("Configuration not loaded")
                    ELSE Value(config)
    /\ pc' = "done"
    /\ UNCHANGED <<elementVars, stackDepth, dbClients, dbPending, config, meta, sink>>

NextConfig == LoadConfig \/ GetConfig \/ Return

SpecConfig == Init /\ [][NextConfig]_vars

----------------------------------------------------------------------------
(* Logger: debug, info, warn, error and sanitizeMeta.  A metadata value is  *)
(* a string, an object (a function from keys to values) or an array; a key  *)
(* is the sequence of its characters.                                       *)

Str(v) == [t |-> "string", v |-> v]
Obj(f) == [t |-> "object", v |-> f]
Arr(q) == [t |-> "array", v |-> q]

\* const sensitiveKeys = ['password', 'token', 'secret', 'key', 'authorization', 'cookie']
sensitiveKeys ==
    { <<"p", "a", "s", "s", "w", "o", "r", "d">>,
      <<"t", "o", "k", "e", "n">>,
      <<"s", "e", "c", "r", "e", "t">>,
      <<"k", "e", "y">>,
      <<"a", "u", "t", "h", "o", "r", "i", "z", "a", "t", "i", "o", "n">>,
      <<"c", "o", "o", "k", "i", "e">> }

KeyApiKey == <<"a", "p", "i", "K", "e", "y">>
KeyUser == <<"u", "s", "e", "r">>
KeyPassword == <<"p", "a", "s", "s", "w", "o", "r", "d">>
KeyId == <<"i", "d">>

UpperCase == <<"A", "B", "C", "D", "E", "F", "G", "H", "I", "J", "K", "L", "M", "N", "O", "P", "Q", "R", "S", "T", "U", "V", "W", "X", "Y", "Z">>
LowerCase == <<"a", "b", "c", "d", "e", "f", "g", "h", "i", "j", "k", "l", "m", "n", "o", "p", "q", "r", "s", "t", "u", "v", "w", "x", "y", "z">>

\* the lower-case letter of every upper-case letter
LowerCaseOf ==
    [c \in {UpperCase[i] : i \in 1..Len(UpperCase)} |->
        LowerCase[CHOOSE i \in 1..Len(UpperCase) : UpperCase[i] = c]]

\* String.prototype.toLowerCase, one character
LowerChar(c) == IF c \in DOMAIN LowerCaseOf THEN LowerCaseOf[c] ELSE c

toLowerCase(w) == [i \in 1..Len(w) |-> LowerChar(w[i])]

\* String.prototype.includes
includes(w, part) ==
    \E i \in 0..(Len(w) - Len(part)) : SubSeq(w, i + 1, i + Len(part)) = part

\* the test of sanitizeObject without toLowerCase
IsSensitiveCaseSensitive(key, currentPath) ==
    \E sensitiveKey \in sensitiveKeys :
        includes(key, sensitiveKey) \/ includes(currentPath, sensitiveKey)

\* sensitiveKeys.some(k => key.toLowerCase().includes(k) ||
\*                         currentPath.toLowerCase().includes(k))
IsSensitive(key, currentPath) ==
    LET lowerKey == toLowerCase(key)
        lowerPath == toLowerCase(currentPath)
    IN  \E sensitiveKey \in sensitiveKeys :
            includes(lowerKey, sensitiveKey) \/ includes(lowerPath, sensitiveKey)

Redacted == Str("[REDACTED]")

\* `${index}` of an array index
IndexText(i) == <<"0", "1", "2", "3", "4", "5", "6", "7", "8", "9">>[i + 1]

RECURSIVE sanitizeObject(_, _)
sanitizeObject(obj, path) ==
    IF obj.t \notin {"object", "array"} THEN obj
    ELSE IF obj.t = "array"
      THEN Arr([i \in 1..Len(obj.v) |->
                  sanitizeObject(obj.v[i], path \o <<"[", IndexText(i - 1), "]">>)])
      ELSE Obj([key \in DOMAIN obj.v |->
                  LET currentPath == IF path # <<>> THEN path \o <<".">> \o key ELSE key
                      value == obj.v[key]
                  IN  IF IsSensitive(key, currentPath) THEN Redacted
                      ELSE IF value.t \in {"object", "array"}
                             THEN sanitizeObject(value, currentPath)
                             ELSE value])

\* sanitizeMeta(meta): a falsy meta is returned as it is
sanitizeMeta(m) == IF m.t = "undefined" THEN m ELSE sanitizeObject(m, <<>>)

\* longest array in a metadata object of the model
MaxArrayLen == 1

Scalars == {Str("a"), Str("b")}

\* objects with some of the keys ks and values from vs
ObjectsOver(ks, vs) == UNION { {Obj(f) : f \in [d -> vs]} : d \in SUBSET ks }

ArrayItems == {Obj(f) : f \in [{KeyPassword} -> Scalars]}

Arrays == UNION { {Arr(q) : q \in [1..n -> ArrayItems]} : n \in 0..MaxArrayLen }

\* the metadata arguments of the model: none, or an object with some of the
\* keys apiKey and user, holding strings, objects or arrays of objects
Metas ==
    {Undefined} \cup
    ObjectsOver({KeyApiKey, KeyUser},
                Scalars \cup ObjectsOver({KeyPassword, KeyId}, Scalars) \cup Arrays)

LogLevels == {"debug", "info", "warn", "error"}

\* the caller builds the metadata object of its next log call
BuildMeta ==
    /\ pc = "idle"
    /\ meta = Undefined
    /\ \E m \in Metas \ {Undefined} : meta' = m
    /\ UNCHANGED <<pc, op, result, elementVars, stackDepth, dbClients, dbPending,
                   config, sink>>

\* the caller's object after sanitizeMeta ran on it: sanitizeObject writes to
\* the objects it creates only
MetaAfterSanitize(m) == m

\* this.logger.<level>(message, this.sanitizeMeta(meta))
LoggerCall(level) ==
    /\ pc = "idle"
    /\ op' = level
    /\ sink' = [level |-> level, meta |-> sanitizeMeta(meta)]
    /\ meta' = MetaAfterSanitize(meta)
    /\ result' = Void
    /\ pc' = "done"
    /\ UNCHANGED <<elementVars, stackDepth, dbClients, dbPending, config>>

LoggerDebug == LoggerCall("debug")
LoggerInfo == LoggerCall("info")
LoggerWarn == LoggerCall("warn")
LoggerError == LoggerCall("error")

NextLogger == BuildMeta \/ LoggerDebug \/ LoggerInfo \/ LoggerWarn \/ LoggerError
                 \/ Return

SpecLogger == Init /\ [][NextLogger]_vars

----------------------------------------------------------------------------
(* Vocabulary of the properties *)

\* the priority order of the strategies
PriorityOrder == <<"data-testid", "id", "css", "role", "text", "xpath">>

FieldOf(name) == CHOOSE k \in Kinds : AttemptNames[k] = name

\* the names of the populated fields of a strategy set, in priority order
Populated(s) == SelectSeq(PriorityOrder, LAMBDA name : s[FieldOf(name)] # "")

\* the names of the strategies handed to the session by locate, in order
Attempted == [i \in 1..Len(sessionCalls) |-> AttemptNames[sessionCalls[i].strategy]]

LocateDone == pc = "done" /\ op = "locate"

LocateRunning == op = "locate" /\ pc \in {"locate", "done"}

AllPopulated == \A k \in Kinds : strategies[k] # ""

NonePopulated == \A k \in Kinds : strategies[k] = ""

----------------------------------------------------------------------------
(* C1: on a page that stays fixed during the call, locate returns the      *)
(* locator of the first populated strategy, in the order data-testid, id,  *)
(* css, role, text, xpath, whose element is visible (and fails when there  *)
(* is none); with all six populated and visible it returns data-testid.    *)
C1_FirstVisibleInPriorityOrder ==
    (LocateDone /\ ~pageChanged) =>
        LET cands == Populated(strategies)
            hits  == {i \in 1..Len(cands) : FieldOf(cands[i]) \in visible}
        IN  /\ hits = {} => result.kind = "error"
            /\ hits # {} =>
                  LET first == CHOOSE i \in hits : \A j \in hits : i <= j
                  IN  result = [kind |-> "locator", strategy |-> cands[first]]
            /\ (AllPopulated /\ visible = Kinds) =>
                  result = [kind |-> "locator", strategy |-> "data-testid"]

C1_Witness ==
    /\ LocateDone /\ ~pageChanged
    /\ AllPopulated /\ visible = Kinds
    /\ result.kind = "locator"

\* C2 (as claimed): locate on a strategy set with no populated field fails
\* with a ConfigurationError (code CONFIGURATION_ERROR), not with the not-found
\* failure, and makes no session call.
C2_ZeroCandidatesIsConfigurationError ==
    (LocateDone /\ NonePopulated) =>
        /\ result.kind = "error"
        /\ result.code = "CONFIGURATION_ERROR"
        /\ result.code # "ELEMENT_NOT_FOUND"
        /\ sessionCalls = <<>>

\* C3 (as claimed): when all N populated candidates fail, the
\* ElementNotFoundError carries the strategy set, the original timeout and the
\* number of attempts made.
C3_NotFoundCarriesAttemptCount ==
    (LocateDone /\ ~NonePopulated /\ result.kind = "error") =>
        /\ result.code = "ELEMENT_NOT_FOUND"
        /\ result.details.strategies = strategies
        /\ result.details.timeout = timeout
        /\ "attemptCount" \in DOMAIN result.details
        /\ result.details.attemptCount = Len(Populated(strategies))

(* C4: the strategies locate hands to the session are a prefix of the      *)
(* populated fields in priority order, never a strategy whose field is     *)
(* empty, and the candidate list stays the one determined at the start.    *)
C4_AttemptsArePrefixOfPopulated ==
    LocateRunning =>
        LET cands == Populated(strategies)
        IN  /\ [i \in 1..Len(validAttempts) |-> AttemptNames[validAttempts[i]]] = cands
            /\ Len(Attempted) <= Len(cands)
            /\ \A i \in 1..Len(Attempted) :
                  /\ Attempted[i] = cands[i]
                  /\ strategies[sessionCalls[i].strategy] # ""

C4_Witness ==
    /\ LocateDone
    /\ strategies[1] = "" /\ strategies[2] = "sel" /\ strategies[3] = ""
    /\ strategies[6] = "sel"
    /\ Len(sessionCalls) >= 2
    /\ sessionCalls[1].strategy = 2

\* q is floor(t / n)
IsFloor(q, t, n) == q * n <= t /\ t < (q + 1) * n

\* the waits locate handed to the session
LocateCalls == SelectSeq(sessionCalls, LAMBDA c : c.by = "locate")

\* the waits waitForState handed to the session after locate returned
StateCalls == SelectSeq(sessionCalls, LAMBDA c : c.by = "waitForState")

RECURSIVE SumTimeouts(_)
SumTimeouts(calls) ==
    IF calls = <<>> THEN 0 ELSE Head(calls).timeout + SumTimeouts(Tail(calls))

(* C5: with budget T and N >= 1 populated candidates every visibility wait *)
(* of locate gets the timeout floor(T / N) (1000 for T = 3000, N = 3), a   *)
(* failed attempt is followed by the next candidate with the same share,   *)
(* and the shares handed out in one call never sum to more than T.         *)
C5_EvenSharesWithinBudget ==
    /\ TimeoutPerAttempt(3000, 3) = 1000
    /\ (LocateRunning /\ ~NonePopulated) =>
          LET n == Len(Populated(strategies))
          IN  /\ \A i \in 1..Len(sessionCalls) :
                    IsFloor(sessionCalls[i].timeout, timeout, n)
              /\ SumTimeouts(sessionCalls) <= timeout
              /\ \A i \in 1..Len(log) :
                    (log[i].msg = "Strategy failed" /\ log[i].attemptNumber < n)
                        => (pc = "locate" \/ Len(sessionCalls) > log[i].attemptNumber)

C5_Witness ==
    /\ LocateDone
    /\ timeout = 3
    /\ Len(Populated(strategies)) = 3
    /\ Len(sessionCalls) = 3
    /\ \A i \in 1..3 : sessionCalls[i].timeout = 1
    /\ result.kind = "error"

(* C6: a failed attempt never makes locate raise while candidates remain:  *)
(* it is logged and the next candidate is tried; each candidate is tried   *)
(* at most once per call and none after one succeeded.                     *)
C6_FailuresContinueOncePerCandidate ==
    LocateRunning =>
        LET n      == Len(Populated(strategies))
            failed == {i \in 1..Len(log) : log[i].msg = "Strategy failed"}
            found  == {i \in 1..Len(log) : log[i].level = "warn"
                                            \/ log[i].msg = "Element found using primary strategy"}
        IN  /\ \A i, j \in 1..Len(sessionCalls) :
                  sessionCalls[i].strategy = sessionCalls[j].strategy => i = j
            /\ result.kind = "error" =>
                  (Len(sessionCalls) = n /\ Cardinality(failed) = n)
            /\ result.kind = "locator" =>
                  /\ Cardinality(failed) = Len(sessionCalls) - 1
                  /\ Cardinality(found) = 1
                  /\ result.strategy = Attempted[Len(Attempted)]
            /\ pc = "locate" =>
                  /\ result.kind = "none"
                  /\ Cardinality(failed) = Len(sessionCalls)
                  /\ found = {}
            /\ \A i \in failed : log[i].strategy = Attempted[log[i].attemptNumber]

C6_Witness ==
    /\ LocateDone
    /\ result.kind = "locator"
    /\ Len(sessionCalls) = 3
    /\ Len(Populated(strategies)) = 4

(* C7: success at the k-th candidate: for k > 1 exactly one warning entry, *)
(* naming the winning strategy with attempt ordinal k; for k = 1 no        *)
(* warning entry, the success is logged at debug level only.               *)
C7_FallbackWarnsPrimaryDoesNot ==
    (LocateDone /\ result.kind = "locator") =>
        LET k     == Len(sessionCalls)
            warns == {i \in 1..Len(log) : log[i].level = "warn"}
        IN  /\ k > 1 =>
                  /\ Cardinality(warns) = 1
                  /\ \A i \in warns : /\ log[i].strategy = result.strategy
                                       /\ log[i].attemptNumber = k
            /\ k = 1 =>
                  /\ warns = {}
                  /\ \E i \in 1..Len(log) :
                        /\ log[i].level = "debug"
                        /\ log[i].msg = "Element found using primary strategy"
                        /\ log[i].strategy = result.strategy
            /\ \A i \in 1..Len(log) : log[i].level \in {"debug", "warn"}

C7_Witness ==
    /\ LocateDone
    /\ Populated(strategies) = <<"css", "xpath">>
    /\ result = [kind |-> "locator", strategy |-> "xpath"]
    /\ \E i \in 1..Len(log) :
          log[i].level = "warn" /\ log[i].strategy = "xpath" /\ log[i].attemptNumber = 2

(* C8: every wait locate hands to the session carries a finite timeout    *)
(* taken from the budget, at most N waits are made, and every call ends,   *)
(* with a locator returned or an error raised.                             *)
C8_ResolveTerminates ==
    /\ [](LocateRunning =>
            /\ Len(sessionCalls) <= Len(Populated(strategies))
            /\ \A i \in 1..Len(sessionCalls) :
                  sessionCalls[i].timeout >= 0 /\ sessionCalls[i].timeout <= timeout)
    /\ (pc = "locate") ~> (pc = "done" /\ result.kind \in {"locator", "error"})

C8_Witness ==
    /\ LocateDone
    /\ AllPopulated
    /\ Len(sessionCalls) = 6
    /\ result.kind = "error"

\* C9 (as claimed): with N >= 1 candidates the per-attempt timeout is greater
\* than zero and strictly less than the budget.
C9_ShareIsStrictFraction ==
    (LocateRunning /\ ~NonePopulated) =>
        /\ timeoutPerAttempt > 0
        /\ timeoutPerAttempt < timeout

(* C9 (amended): with N >= 1 candidates the per-attempt timeout is         *)
(* floor(T / N): never more than the budget, strictly less than it when    *)
(* N >= 2 and T > 0, greater than zero when T >= N; N shares never exceed  *)
(* T, so every later candidate still gets its attempt with the same share. *)
C9_ShareIsFloorOfBudget ==
    (LocateRunning /\ ~NonePopulated) =>
        LET n == Len(Populated(strategies))
        IN  /\ IsFloor(timeoutPerAttempt, timeout, n)
            /\ timeoutPerAttempt >= 0 /\ timeoutPerAttempt <= timeout
            /\ n * timeoutPerAttempt <= timeout
            /\ (n >= 2 /\ timeout > 0) => timeoutPerAttempt < timeout
            /\ timeout >= n => timeoutPerAttempt > 0
            /\ \A i \in 1..Len(sessionCalls) : sessionCalls[i].timeout = timeoutPerAttempt
            /\ result.kind = "error" => Len(sessionCalls) = n

C9_Witness ==
    /\ LocateDone
    /\ Len(Populated(strategies)) = 2
    /\ timeout = 3
    /\ Len(sessionCalls) = 2
    /\ sessionCalls[1].timeout = 1 /\ sessionCalls[2].timeout = 1

(* C10: waitForState resolves first with the whole timeout as budget: a    *)
(* state wait is only issued on the locator that locate returned in the    *)
(* same call, and when locate fails its error reaches the caller with no   *)
(* state wait issued and no locator returned.                              *)
C10_StateWaitOnlyAfterResolve ==
    op = "waitForState" =>
        LET n == Len(Populated(strategies))
        IN  /\ \A i \in 1..Len(LocateCalls) :
                  IsFloor(LocateCalls[i].timeout, timeout, n)
            /\ (StateCalls # <<>> \/ pc \in {"state", "settle"}) =>
                  /\ LocateCalls # <<>>
                  /\ locator = LocateCalls[Len(LocateCalls)].strategy
                  /\ \E i \in 1..Len(log) :
                        /\ log[i].level = "warn"
                              \/ log[i].msg = "Element found using primary strategy"
                        /\ log[i].strategy = AttemptNames[locator]
                  /\ \A i \in 1..Len(log) : log[i].level # "error"
            /\ \A i \in 1..Len(sessionCalls) :
                  sessionCalls[i].by = "waitForState" =>
                      /\ \A j \in 1..Len(sessionCalls) :
                            sessionCalls[j].by = "locate" => j < i
                      /\ sessionCalls[i].call # "waitForTimeout" =>
                            (sessionCalls[i].strategy = locator
                             /\ sessionCalls[i].timeout = timeout)
            /\ (\E i \in 1..Len(log) : log[i].level = "error") =>
                  /\ pc = "done"
                  /\ result = ElementNotFoundError(strategies, timeout)
                  /\ StateCalls = <<>>
                  /\ Len(LocateCalls) = n
            /\ (pc = "done" /\ result.kind = "locator") =>
                  (StateCalls # <<>> /\ result.strategy = AttemptNames[locator])

C10_Witness ==
    /\ pc = "done" /\ op = "waitForState"
    /\ state = "hidden"
    /\ Len(LocateCalls) = 2
    /\ Len(StateCalls) = 1
    /\ result.kind = "locator"

(* C11: when locate succeeded and the requested state (visible, hidden,     *)
(* enabled, disabled) is not reached within the timeout, waitForState      *)
(* raises the error of the failed state wait, which is neither an          *)
(* ElementNotFoundError nor carries its code; ElementNotFoundError is what *)
(* is raised when no candidate resolved.                                   *)
C11_StateTimeoutDistinctFromNotFound ==
    (op = "waitForState" /\ pc = "done" /\ result.kind = "error"
     /\ state \in {"visible", "hidden", "enabled", "disabled"}) =>
        /\ StateCalls # <<>> =>
              /\ result = SessionError(StateWait(state), timeout)
              /\ result.name # "ElementNotFoundError"
              /\ result.code # "ELEMENT_NOT_FOUND"
              /\ result # ElementNotFoundError(strategies, timeout)
              /\ locator \in Kinds
        /\ StateCalls = <<>> =>
              /\ result = ElementNotFoundError(strategies, timeout)
              /\ locator = 0

C11_Witness ==
    /\ pc = "done" /\ op = "waitForState"
    /\ state = "hidden"
    /\ Len(StateCalls) = 1
    /\ result.kind = "error"
    /\ result.name = "SessionTimeout"

(* C12: waitForState(set, 'hidden', timeout) that began while the element  *)
(* was visible returns the resolved handle whenever the element has become *)
(* hidden during the call, wherever that moment falls.                     *)
C12_HiddenWaitReturnsWheneverHidden ==
    (op = "waitForState" /\ state = "hidden" /\ pc = "done"
     /\ startedVisible /\ validAttempts # <<>> /\ timeout > 0
     /\ \A i \in 1..Len(validAttempts) : validAttempts[i] \notin visible) =>
        result.kind = "locator"

(* C20 as stated: a state that is not reached within the timeout makes     *)
(* waitForState raise the ElementNotFoundError (code ELEMENT_NOT_FOUND)    *)
(* that locate raises on exhaustion.                                       *)
C20_StateTimeoutIsNotFound ==
    (op = "waitForState" /\ pc = "done" /\ result.kind = "error"
     /\ StateCalls # <<>>) =>
        /\ result.name = "ElementNotFoundError"
        /\ result.code = "ELEMENT_NOT_FOUND"

(* C20 as the code has it: a waitForState call ends with the code          *)
(* ELEMENT_NOT_FOUND exactly when locate was exhausted, after one attempt  *)
(* per populated candidate and before any state wait; a state wait that    *)
(* fails ends the call with the error of that wait, which names the wait   *)
(* and the whole timeout and has no error code.                            *)
C20_NotFoundOnlyFromExhaustion ==
    (op = "waitForState" /\ pc = "done" /\ result.kind = "error") =>
        /\ result.code = "ELEMENT_NOT_FOUND" <=> StateCalls = <<>>
        /\ result.code = "ELEMENT_NOT_FOUND" =>
              /\ Len(LocateCalls) = Len(validAttempts)
              /\ log # <<>> /\ log[Len(log)].level = "error"
              /\ result.details.strategies = strategies
        /\ StateCalls # <<>> =>
              /\ result.code = ""
              /\ result.details.call = StateCalls[Len(StateCalls)].call
              /\ result.details.timeout = timeout
              /\ StateCalls[Len(StateCalls)].timeout = timeout
              /\ \A i \in 1..Len(log) : log[i].level # "error"

C20_Witness ==
    /\ pc = "done" /\ op = "waitForState"
    /\ state = "enabled"
    /\ timeout = 2
    /\ Len(LocateCalls) = 2
    /\ Len(StateCalls) = 1
    /\ result = SessionError("toBeEnabled", 2)

NoMatch(c) == c = CountThrows \/ c = 0

(* C13: locateAll queries the six candidates in the priority order of      *)
(* locate; at the first candidate whose count is non-zero it returns that  *)
(* candidate's matches only, one handle per match numbered 0..count-1;     *)
(* when every count is zero or its query throws it returns an empty array  *)
(* and raises nothing.                                                     *)
C13_LocateAllFirstNonEmpty ==
    op = "locateAll" =>
        /\ Len(counts) = Len(sessionCalls)
        /\ result.kind # "error"
        /\ \A i \in 1..Len(sessionCalls) :
              /\ AttemptNames[sessionCalls[i].strategy] = PriorityOrder[i]
              /\ i < Len(counts) => NoMatch(counts[i])
        /\ pc = "done" =>
              /\ result.kind = "elements"
              /\ IF \E i \in 1..Len(counts) : counts[i] > 0
                 THEN LET c == counts[Len(counts)]
                      IN  /\ c > 0
                          /\ Len(result.elements) = c
                          /\ \A j \in 1..c :
                                /\ result.elements[j].strategy = PriorityOrder[Len(counts)]
                                /\ result.elements[j].nth = j - 1
                 ELSE /\ Len(counts) = Len(PriorityOrder)
                      /\ result.elements = <<>>
                      /\ log[Len(log)].level = "warn"

C13_Witness ==
    /\ pc = "done" /\ op = "locateAll"
    /\ counts = <<CountThrows, 0, 2>>
    /\ Len(result.elements) = 2
    /\ result.elements[2] = [strategy |-> "css", nth |-> 1]

(* C15: getCount never raises: it returns the length of the array its      *)
(* locateAll call produces for the same strategy set, 0 when nothing       *)
(* matches, and 0 for a locateAll that failed.                             *)
C15_GetCountIsLength ==
    op = "getCount" =>
        /\ result.kind # "error"
        /\ timeout = GetCountTimeout
        /\ GetCountResult(ElementNotFoundError(strategies, timeout)) = Value(0)
        /\ GetCountResult(SessionError("count", timeout)) = Value(0)
        /\ pc = "done" =>
              /\ result.kind = "value"
              /\ IF \E i \in 1..Len(counts) : counts[i] > 0
                 THEN /\ result.value = counts[Len(counts)]
                      /\ result.value = Len(NthHandles(locator, counts[Len(counts)]))
                 ELSE /\ result.value = 0
                      /\ Len(counts) = Len(Attempts)

C15_Witness ==
    /\ pc = "done" /\ op = "getCount"
    /\ result = Value(2)
    /\ Len(counts) = 4

\* the log says that the wait for the state st returned
Reached(st) ==
    \E i \in 1..Len(log) :
        log[i].msg = "Element reached desired state" /\ log[i].strategy = st

\* the positions in sessionCalls of the state wait named call
WaitsFor(call) ==
    {i \in 1..Len(sessionCalls) :
        sessionCalls[i].by = "waitForState" /\ sessionCalls[i].call = call}

(* C16: waitForAppearAndDisappear finishes waitForState(visible,            *)
(* appearTimeout) before it starts waitForState(hidden, disappearTimeout): *)
(* every session wait of the first call precedes every wait of the second, *)
(* the second call is not started when the first fails, whose error is     *)
(* raised, and the operation returns only after both waits returned.       *)
C16_AppearThenDisappear ==
    op = "waitForAppearAndDisappear" =>
        LET n == Len(ValidAttempts(strategies))
            vis == WaitsFor("toBeVisible")
            hid == WaitsFor("toBeHidden")
            second == state = "hidden" \/ pc = "disappear"
        IN  /\ Cardinality(vis) <= 1 /\ Cardinality(hid) <= 1
            /\ \A i \in 1..Len(sessionCalls) :
                  /\ (\A v \in vis : i < v) =>
                        /\ sessionCalls[i].by = "locate"
                        /\ sessionCalls[i].timeout = TimeoutPerAttempt(appearTimeout, n)
                  /\ (\E v \in vis : i > v) =>
                        /\ second
                        /\ i \in hid \/ sessionCalls[i].by = "locate"
                        /\ i \in hid => (i = Len(sessionCalls)
                                          /\ sessionCalls[i].timeout = disappearTimeout)
                        /\ i \notin hid =>
                              sessionCalls[i].timeout = TimeoutPerAttempt(disappearTimeout, n)
                  /\ i \in vis => sessionCalls[i].timeout = appearTimeout
            /\ second <=> (vis # {} /\ Reached("visible"))
            /\ (~second /\ pc = "done") =>
                  /\ hid = {}
                  /\ result \in {ElementNotFoundError(strategies, appearTimeout),
                                  SessionError("toBeVisible", appearTimeout)}
            /\ (pc = "done" /\ result.kind # "error") <=> result = Void
            /\ result = Void =>
                  /\ vis # {} /\ hid # {}
                  /\ Reached("visible") /\ Reached("hidden")
                  /\ log[Len(log)].msg = "Element appeared and disappeared successfully"

C16_Witness ==
    /\ pc = "done" /\ op = "waitForAppearAndDisappear"
    /\ result = Void
    /\ appearTimeout = 1 /\ disappearTimeout = MaxTimeout
    /\ Len(sessionCalls) = 5
    /\ WaitsFor("toBeVisible") = {2}

\* the clicks clickElement handed to the session
ClickCalls == SelectSeq(sessionCalls, LAMBDA c : c.call = "click")

(* C18: clickElement has a retry mechanism: an error reaches the caller    *)
(* only after a failed locate or a failed click was followed by another    *)
(* attempt.                                                                *)
C18_ClickIsRetried ==
    (op = "clickElement" /\ pc = "done" /\ result.kind = "error"
     /\ validAttempts # <<>> /\ timeout > 0) =>
        \/ Len(ClickCalls) >= 2
        \/ Len(LocateCalls) > Len(validAttempts)

\* the positions of the populated candidates of s that the page vis shows
Hits(s, vis) == {i \in 1..Len(ValidAttempts(s)) : ValidAttempts(s)[i] \in vis}

\* the first of them
FirstHit(s, vis) == CHOOSE i \in Hits(s, vis) : \A j \in Hits(s, vis) : i <= j

\* what locate(s, t) gives on a page vis that does not change during the call
LocateOutcome(s, t, vis) ==
    IF Hits(s, vis) = {} THEN ElementNotFoundError(s, t)
    ELSE Returned(ValidAttempts(s)[FirstHit(s, vis)])

LoginTimedOut ==
    /\ op = "login" /\ pc = "done"
    /\ \E i \in 1..Len(log) :
          log[i].level = "error" /\ log[i].strategy = "SauceDemo login result timeout"

\* success is returned on a URL check that saw /inventory.html, a rejection
\* carries the message the page showed, and neither is an error
LoginReturnsWhatItSaw ==
    (op = "login" /\ pc = "done") =>
        /\ result = LoginSucceeded =>
              (sessionCalls = <<SessionCall("login", "url", 0, NonFinite)>> /\ inventoryUrl)
        /\ (result.kind = "value" /\ result # LoginSucceeded) =>
              /\ result = LoginRejected(errorText)
              /\ errorText \notin {"none", ""}
              /\ sessionCalls[Len(sessionCalls)].call = "getElementText"

\* in a polling round the URL is read before the error message is looked for
LoginUrlBeforeError ==
    op = "login" =>
        \A i \in 1..Len(sessionCalls) :
            sessionCalls[i].call = "isElementVisible" =>
                (i = 2 /\ sessionCalls[1].call = "url")

(* C19: login returns {success: true, redirectUrl} when a URL check sees    *)
(* /inventory.html, returns {success: false, errorMessage} without raising *)
(* when the page shows a login error, and raises AuthenticationFailedError *)
(* when the result timeout passes with neither seen; in each polling round *)
(* the URL is checked before the error message.                            *)
C19_LoginOutcomes ==
    /\ LoginReturnsWhatItSaw
    /\ LoginUrlBeforeError
    /\ LoginTimedOut =>
          /\ result.kind = "error"
          /\ result.name = "AuthenticationFailedError"
          /\ result.code = "AUTHENTICATION_FAILED"

(* C21: for state 'stable' waitForState waits, with the whole timeout, for *)
(* the resolved locator to be attached and then waits the settle delay of  *)
(* 1000 ms, whatever the timeout, before it returns the locator; these are *)
(* its only two waits, and the settle delay is not started when the        *)
(* attached wait fails.                                                    *)
C21_StableIsAttachedThenSettle ==
    (op = "waitForState" /\ state = "stable") =>
        /\ Len(StateCalls) <= 2
        /\ StateCalls # <<>> =>
              StateCalls[1] = SessionCall("waitForState", "waitFor:attached", locator, timeout)
        /\ Len(StateCalls) = 2 =>
              /\ StateCalls[2] = SessionCall("waitForState", "waitForTimeout", 0, 1000)
              /\ pc = "done"
              /\ result = Returned(locator)
        /\ pc = "settle" <=> (Len(StateCalls) = 1 /\ result = NoResult)
        /\ (pc = "done" /\ result.kind = "locator") => Len(StateCalls) = 2
        /\ (pc = "done" /\ result.kind = "error") =>
              /\ \A i \in 1..Len(sessionCalls) : sessionCalls[i].call # "waitForTimeout"
              /\ Len(StateCalls) = 1 => result = SessionError("waitFor:attached", timeout)

C21_Witness ==
    /\ pc = "done" /\ op = "waitForState" /\ state = "stable"
    /\ timeout = 2
    /\ Len(StateCalls) = 2
    /\ StateCalls[2].timeout = 1000
    /\ result.kind = "locator"

\* the waits of a waitForState call other than the settle delay
BudgetedCalls == SelectSeq(sessionCalls, LAMBDA c : c.call # "waitForTimeout")

(* C26: the timeouts one waitForState(set, state, timeout) call hands to   *)
(* the session sum to at most 2 x timeout: the shares of its locate phase  *)
(* never exceed timeout, at most one state wait gets timeout again, and    *)
(* 'stable' adds the settle delay of 1000 ms; the sum can exceed timeout.  *)
C26_WaitBudgetAtMostTwice ==
    op = "waitForState" =>
        /\ SumTimeouts(LocateCalls) <= timeout
        /\ Len(LocateCalls) <= Len(validAttempts)
        /\ Len(BudgetedCalls) <= Len(LocateCalls) + 1
        /\ \A i \in 1..Len(StateCalls) :
              StateCalls[i].timeout = IF StateCalls[i].call = "waitForTimeout"
                                      THEN 1000 ELSE timeout
        /\ SumTimeouts(sessionCalls) <=
              2 * timeout + (IF state = "stable" THEN 1000 ELSE 0)

C26_Witness ==
    /\ pc = "done" /\ op = "waitForState" /\ state = "visible"
    /\ timeout = 3
    /\ Len(LocateCalls) = 3
    /\ SumTimeouts(sessionCalls) = 6

\* the log entries of candidates that failed
FailedEntries == SelectSeq(log, LAMBDA e : e.msg = "Strategy failed")

(* C24: locate raises nothing but ElementNotFoundError: a candidate whose   *)
(* wait fails, for whatever reason, is logged as failed and followed by    *)
(* the next one, no error leaves the loop, and ElementNotFoundError is     *)
(* raised only when every one of the N candidates has been attempted and   *)
(* has failed.                                                             *)
C24_OnlyNotFoundAfterAllAttempts ==
    op = "locate" =>
        /\ pc = "locate" =>
              /\ result = NoResult
              /\ Len(FailedEntries) = Len(sessionCalls)
              /\ \A i \in 1..Len(log) : log[i].level = "debug"
        /\ result.kind = "error" =>
              /\ pc = "done"
              /\ result = ElementNotFoundError(strategies, timeout)
              /\ result.name = "ElementNotFoundError"
              /\ Len(sessionCalls) = Len(validAttempts)
              /\ Len(FailedEntries) = Len(validAttempts)
              /\ \A i \in 1..Len(validAttempts) :
                    /\ sessionCalls[i].strategy = validAttempts[i]
                    /\ FailedEntries[i].strategy = AttemptNames[validAttempts[i]]
              /\ locator = 0

C24_Witness ==
    /\ LocateDone
    /\ result.kind = "error"
    /\ Len(FailedEntries) = 3
    /\ timeout = 2
    /\ visible # {}

(* C23: locateAll issues a count query only for the populated fields of     *)
(* the strategy set, so the matches it returns never come from an          *)
(* unpopulated strategy.                                                   *)
C23_LocateAllSkipsUnpopulated ==
    op = "locateAll" =>
        /\ \A i \in 1..Len(sessionCalls) :
              Truthy(strategies[sessionCalls[i].strategy])
        /\ (pc = "done" /\ result.elements # <<>>) => Truthy(strategies[locator])

\* the strategy kind locate picks on the page vis, when it picks one
LocatePick(s, vis) == ValidAttempts(s)[FirstHit(s, vis)]

(* C25: on a page that does not change, when locate succeeds at priority   *)
(* position k, locateAll on the same strategy set returns a non-empty      *)
(* array whose handles all come from one strategy at a position <= k, and  *)
(* getCount returns at least 1 whenever exists returns true; the strategy  *)
(* of locateAll may come before the one locate picks.                      *)
C25_LocateAllNoLaterThanLocate ==
    (pc = "done" /\ ~pageChanged /\ Hits(strategies, visible) # {}) =>
        /\ LocateOutcome(strategies, timeout, visible).kind = "locator"
        /\ ExistsResult(LocateOutcome(strategies, timeout, visible)) = Value(TRUE)
        /\ op = "locateAll" =>
              /\ result.elements # <<>>
              /\ locator \in Kinds
              /\ locator <= LocatePick(strategies, visible)
              /\ \A j \in 1..Len(result.elements) :
                    result.elements[j].strategy = AttemptNames[locator]
        /\ op = "getCount" =>
              /\ result.value >= 1
              /\ locator <= LocatePick(strategies, visible)

C25_Witness ==
    /\ pc = "done" /\ op = "locateAll"
    /\ Hits(strategies, visible) # {}
    /\ LocatePick(strategies, visible) = 4
    /\ locator = 2
    /\ Len(result.elements) = 2

(* C22: when the element became visible within appearTimeout and is hidden *)
(* afterwards, waitForAppearAndDisappear completes successfully, also when *)
(* the element disappears between the return of the visible phase and the  *)
(* locate of the hidden phase.                                             *)
C22_AppearThenHiddenCompletes ==
    (op = "waitForAppearAndDisappear" /\ pc = "done"
     /\ Reached("visible")
     /\ validAttempts # <<>> /\ timeoutPerAttempt > 0
     /\ \A i \in 1..Len(validAttempts) : validAttempts[i] \notin visible) =>
        result = Void

----------------------------------------------------------------------------
(* C27: SauceDemoLoginPage.getPageTitle ends with the title of the browser  *)
(* page, as BasePage.getPageTitle does, and makes no call to itself.        *)

C27_LoginTitleIsPageTitle ==
    /\ (op = "SauceDemoLoginPage.getPageTitle" /\ pc = "done") =>
           (result.kind = "value" /\ result.value \in Titles)
    /\ (op = "SauceDemoLoginPage.getPageTitle") => stackDepth <= 1

----------------------------------------------------------------------------
(* C28: getConnectionStatus reports a database as connected only when its   *)
(* client is connected; a connect call that failed leaves the status of its *)
(* database false, and a connect call that returns a client returns a       *)
(* connected one.                                                           *)

C28_StatusMeansConnected ==
    /\ (op = "getConnectionStatus" /\ pc = "done") =>
           \A db \in Databases : result.value[db] => dbClients[db] = "connected"
    /\ (op \in ConnectOps /\ pc = "done" /\ result.kind = "error") =>
           ~ConnectionStatus[DbOf(op)]
    /\ (op \in ConnectOps /\ pc = "done" /\ result.kind = "value") =>
           result.value = "connected"

----------------------------------------------------------------------------
(* C29: the stored configuration changes only when a loadConfig call        *)
(* returns, and then to the validated configuration that call returns; a    *)
(* loadConfig call that fails raises ConfigurationError and leaves the      *)
(* stored configuration as it was; getConfig raises ConfigurationError      *)
(* while nothing is stored and returns the stored configuration otherwise.  *)

\* the step is the call o made from the idle state
CallStep(o) == pc = "idle" /\ op' = o /\ pc' = "done"

C29_FailedLoadKeepsConfig ==
    [][ /\ CallStep("loadConfig") =>
             IF result'.kind = "error"
               THEN result'.name = "ConfigurationError" /\ config' = config
               ELSE /\ result' = Value(config')
                    /\ config'.kind = "object"
                    /\ ValidationErrors(config') = {}
        /\ CallStep("getConfig") =>
             /\ config' = config
             /\ IF config = NoConfig
                  THEN result'.kind = "error" /\ result'.name = "ConfigurationError"
                  ELSE result' = Value(config)
        /\ config' # config => (CallStep("loadConfig") /\ result'.kind = "value")
      ]_vars

\* a loadConfig call failed after an earlier one had succeeded
C29_Witness ==
    /\ op = "loadConfig" /\ pc = "done"
    /\ result.kind = "error"
    /\ config # NoConfig

----------------------------------------------------------------------------
(* C30: in every debug, info, warn and error call the metadata handed to    *)
(* the sink has '[REDACTED]' under every key, at any depth and inside       *)
(* arrays, that contains password, token, secret, key, authorization or     *)
(* cookie in any letter case; it is the same whatever values the caller's   *)
(* metadata holds under such keys; the caller's object is left as it was.   *)

\* the key contains one of the sensitive words, case-insensitively
KeyIsSensitive(key) ==
    \E word \in sensitiveKeys : includes(toLowerCase(key), word)

\* every property under a sensitive key holds '[REDACTED]'
RECURSIVE NoSensitiveValue(_)
NoSensitiveValue(node) ==
    IF node.t = "object"
      THEN \A key \in DOMAIN node.v :
               IF KeyIsSensitive(key) THEN node.v[key] = Redacted
               ELSE NoSensitiveValue(node.v[key])
    ELSE IF node.t = "array"
      THEN \A i \in 1..Len(node.v) : NoSensitiveValue(node.v[i])
    ELSE TRUE

\* the metadata that differs from node in holding x under every sensitive key
RECURSIVE WithSensitiveValues(_, _)
WithSensitiveValues(node, x) ==
    IF node.t = "object"
      THEN Obj([key \in DOMAIN node.v |->
                  IF KeyIsSensitive(key) THEN x
                  ELSE WithSensitiveValues(node.v[key], x)])
    ELSE IF node.t = "array"
      THEN Arr([i \in 1..Len(node.v) |-> WithSensitiveValues(node.v[i], x)])
    ELSE node

\* the step is a call of one of the four log methods
LogStep == pc = "idle" /\ pc' = "done" /\ op' \in LogLevels

C30_SinkNeverSeesSensitive ==
    [][ LogStep =>
          /\ sink'.level = op'
          /\ NoSensitiveValue(sink'.meta)
          /\ \A x \in {Str("a"), Arr(<<>>)} :
                 sanitizeMeta(WithSensitiveValues(meta, x)) = sink'.meta
          /\ meta' = meta
      ]_vars

\* a call whose metadata holds a secret under apiKey and another under the
\* password of an object inside an array
C30_Witness ==
    /\ op \in LogLevels /\ pc = "done"
    /\ meta.t = "object"
    /\ DOMAIN meta.v = {KeyApiKey, KeyUser}
    /\ meta.v[KeyApiKey] = Str("b")
    /\ meta.v[KeyUser].t = "array"
    /\ Len(meta.v[KeyUser].v) >= 1
    /\ meta.v[KeyUser].v[1].v[KeyPassword] = Str("a")
    /\ sink.meta.v[KeyApiKey] = Redacted
    /\ sink.meta.v[KeyUser].v[1].v[KeyPassword] = Redacted

====
